---- MODULE Spec2Model ----
(***************************************************************************)
(* A model of topoQ: the Tetron qubit (qubit.py), the gates (gates.py),    *)
(* the Circuit and its run (circuit.py), the shot engine (simulation.py),  *)
(* the gate-merging optimizer (optimizer.py), the assignment error         *)
(* (error_model.py), the stabilizer codes (stabilizer.py) and the JSON     *)
(* transpiler (transpiler.py).                                             *)
(*                                                                         *)
(* Numbers.  numpy's complex amplitudes are modelled exactly.  A complex   *)
(* number is a Gaussian integer <<re, im>>; a vector or a matrix is a      *)
(* tuple of Gaussian integers with an exponent k and stands for            *)
(* entries / sqrt(2)^k.  The Hadamard gate, the phase gate, the braiding   *)
(* gates at multiples of pi/4 and every product of them are of this form.  *)
(* Every value is kept in canonical form (no common factor 2 while k >= 2) *)
(* so that equality of values is equality of the numbers they stand for.   *)
(***************************************************************************)
EXTENDS Integers, Sequences, FiniteSets, TLC

VARIABLES qubits, operations, call, code

vars == <<qubits, operations, call, code>>

(***************************************************************************)
(* Bounds of the model.                                                    *)
(***************************************************************************)
MaxQubits == 2      \* qubits added to a circuit
MaxOps == 2         \* operations recorded in a circuit (Spec)
MaxHist == 2        \* history entries of all the qubits of a circuit
MaxShots == 2       \* shots of one Simulation.run
DrawDen == 2        \* random draws are the fractions n / DrawDen in [0, 1)
MaxOptLen == 3      \* length of the operation lists given to the optimizer (SpecOpt)
MaxCalls == 3       \* method calls on the one Tetron of SpecTetron
MaxStabs == 2       \* stabilizers added to a StabilizerCode (SpecStab)
AssignDen == 8      \* p_a and the draws of SpecAssign are the fractions n / AssignDen
MaxJsonLen == 2     \* operations of the circuits given to circuit_to_json (SpecJson)
MaxEquivLen == 3    \* operations of the circuits run before and after optimizing (SpecEquiv)

(***************************************************************************)
(* Complex arithmetic on Gaussian integers.                                *)
(***************************************************************************)
CAdd(x, y) == <<x[1] + y[1], x[2] + y[2]>>
CSub(x, y) == <<x[1] - y[1], x[2] - y[2]>>
CMul(x, y) == <<x[1] * y[1] - x[2] * y[2], x[1] * y[2] + x[2] * y[1]>>
CConj(x) == <<x[1], -x[2]>>
CAbsSq(x) == x[1] * x[1] + x[2] * x[2]
CEven(x) == x[1] % 2 = 0 /\ x[2] % 2 = 0
CHalf(x) == <<x[1] \div 2, x[2] \div 2>>
CZero == <<0, 0>>
COne == <<1, 0>>
CI == <<0, 1>>

RECURSIVE Pow2(_)
Pow2(n) == IF n = 0 THEN 1 ELSE 2 * Pow2(n - 1)

\* the n with 2^n = x, and -1 when x is no power of two
RECURSIVE Log2(_)
Log2(x) ==
    IF x = 1 THEN 0
    ELSE IF x < 1 \/ x % 2 # 0 THEN -1
    ELSE LET r == Log2(x \div 2) IN IF r < 0 THEN -1 ELSE r + 1

(***************************************************************************)
(* Vectors [c |-> <<c1, c2>>, k |-> e] and matrices                        *)
(* [m |-> <<<<m11, m12>>, <<m21, m22>>>>, k |-> e], canonical forms.       *)
(***************************************************************************)
RECURSIVE CanonVec(_)
CanonVec(v) ==
    IF v.c[1] = CZero /\ v.c[2] = CZero THEN [c |-> v.c, k |-> 0]
    ELSE IF v.k >= 2 /\ CEven(v.c[1]) /\ CEven(v.c[2])
         THEN CanonVec([c |-> <<CHalf(v.c[1]), CHalf(v.c[2])>>, k |-> v.k - 2])
         ELSE v

RECURSIVE CanonMat(_)
CanonMat(M) ==
    LET e == <<M.m[1][1], M.m[1][2], M.m[2][1], M.m[2][2]>> IN
    IF \A i \in 1..4 : e[i] = CZero THEN [m |-> M.m, k |-> 0]
    ELSE IF M.k >= 2 /\ \A i \in 1..4 : CEven(e[i])
         THEN CanonMat([m |-> <<<<CHalf(e[1]), CHalf(e[2])>>,
                                <<CHalf(e[3]), CHalf(e[4])>>>>, k |-> M.k - 2])
         ELSE M

Vec(c1, c2, k) == CanonVec([c |-> <<c1, c2>>, k |-> k])
Mat(a, b, c, d, k) == CanonMat([m |-> <<<<a, b>>, <<c, d>>>>, k |-> k])

\* gate_matrix @ state
MatVec(M, v) ==
    Vec(CAdd(CMul(M.m[1][1], v.c[1]), CMul(M.m[1][2], v.c[2])),
        CAdd(CMul(M.m[2][1], v.c[1]), CMul(M.m[2][2], v.c[2])),
        M.k + v.k)

\* A @ B
MatMul(A, B) ==
    Mat(CAdd(CMul(A.m[1][1], B.m[1][1]), CMul(A.m[1][2], B.m[2][1])),
        CAdd(CMul(A.m[1][1], B.m[1][2]), CMul(A.m[1][2], B.m[2][2])),
        CAdd(CMul(A.m[2][1], B.m[1][1]), CMul(A.m[2][2], B.m[2][1])),
        CAdd(CMul(A.m[2][1], B.m[1][2]), CMul(A.m[2][2], B.m[2][2])),
        A.k + B.k)

\* M.conj().T
Dagger(M) ==
    Mat(CConj(M.m[1][1]), CConj(M.m[2][1]),
        CConj(M.m[1][2]), CConj(M.m[2][2]), M.k)

\* np.outer(state, state.conj())
Outer(v) ==
    Mat(CMul(v.c[1], CConj(v.c[1])), CMul(v.c[1], CConj(v.c[2])),
        CMul(v.c[2], CConj(v.c[1])), CMul(v.c[2], CConj(v.c[2])),
        2 * v.k)

\* the squared norm |a|^2 + |b|^2 of a vector is NormNum(v) / 2^(v.k)
NormNum(v) == CAbsSq(v.c[1]) + CAbsSq(v.c[2])
UnitNorm(v) == NormNum(v) = Pow2(v.k)

Ket0 == Vec(COne, CZero, 0)
Ket1 == Vec(CZero, COne, 0)
KetPlus == Vec(COne, COne, 1)
KetMinus == Vec(COne, <<-1, 0>>, 1)
Eye2 == Mat(COne, CZero, CZero, COne, 0)

(***************************************************************************)
(* utils.py, gates.py.  A gate is a record with the fields of every gate   *)
(* class: cls (the class), name (CliffordGate), theta and generator        *)
(* (BraidingGate; theta counts multiples of pi/4) and matrix               *)
(* (GenericGate).  TGate's matrix diag(1, e^(i pi/4)) is not of the form   *)
(* entries / sqrt(2)^k and is not among the gates the model applies.       *)
(***************************************************************************)
\* op.upper() of a Pauli label
PauliUpper(op) ==
    CASE op = "i" -> "I"
      [] op = "x" -> "X"
      [] op = "y" -> "Y"
      [] op = "z" -> "Z"
      [] OTHER -> op

pauli_operator(op) ==
    CASE PauliUpper(op) = "I" -> Mat(COne, CZero, CZero, COne, 0)
      [] PauliUpper(op) = "X" -> Mat(CZero, COne, COne, CZero, 0)
      [] PauliUpper(op) = "Y" -> Mat(CZero, <<0, -1>>, CI, CZero, 0)
      [] PauliUpper(op) = "Z" -> Mat(COne, CZero, CZero, <<-1, 0>>, 0)

\* cos(n pi/4) and sin(n pi/4), each times sqrt(2) when n is odd
CosQ(n) == <<1, 1, 0, -1, -1, -1, 0, 1>>[(n % 8) + 1]
SinQ(n) == <<0, 1, 1, 1, 0, -1, -1, -1>>[(n % 8) + 1]

\* expm(-1j * theta * G) = cos(theta) I - i sin(theta) G, since G @ G = I
BraidingMatrix(theta, generator) ==
    LET G == pauli_operator(generator)
        c == <<CosQ(theta), 0>>
        s == <<0, -SinQ(theta)>>
    IN  Mat(CAdd(c, CMul(s, G.m[1][1])), CMul(s, G.m[1][2]),
            CMul(s, G.m[2][1]), CAdd(c, CMul(s, G.m[2][2])),
            theta % 2)

CliffordMatrix(name) ==
    CASE name = "H" -> Mat(COne, COne, COne, <<-1, 0>>, 1)
      [] name = "S" -> Mat(COne, CZero, CZero, CI, 0)

BraidingGate(theta, generator) ==
    [cls |-> "BraidingGate", name |-> "", theta |-> theta,
     generator |-> PauliUpper(generator), matrix |-> Eye2]
CliffordGate(name) ==
    [cls |-> "CliffordGate", name |-> name, theta |-> 0,
     generator |-> "", matrix |-> CliffordMatrix(name)]
GenericGate(matrix) ==
    [cls |-> "GenericGate", name |-> "", theta |-> 0,
     generator |-> "", matrix |-> matrix]
CZGate ==
    [cls |-> "CZGate", name |-> "", theta |-> 0,
     generator |-> "", matrix |-> Eye2]
NoGate ==
    [cls |-> "", name |-> "", theta |-> 0, generator |-> "", matrix |-> Eye2]

\* gate.matrix(): computed by BraidingGate, stored by the other classes
GateMatrix(g) ==
    IF g.cls = "BraidingGate" THEN BraidingMatrix(g.theta, g.generator)
    ELSE g.matrix

HGate == CliffordGate("H")
SGate == CliffordGate("S")
\* a caller-supplied matrix that is not unitary: 2 * I
TwoGate == GenericGate(Mat(<<2, 0>>, CZero, CZero, <<2, 0>>, 0))

(***************************************************************************)
(* qubit.py: Tetron.  dm is <<>> for None and <<matrix>> otherwise.        *)
(***************************************************************************)
Tetron(use_density_matrix) ==
    [use_dm |-> use_density_matrix,
     state |-> Ket0,
     dm |-> IF use_density_matrix THEN <<Outer(Ket0)>> ELSE <<>>,
     history |-> <<>>]

(***************************************************************************)
(* np.linalg.eig(dm) and eigenvecs[:, argmax(abs(eigenvals))].  dm is      *)
(* always w w^* for some vector w (it is an outer product, conjugated by   *)
(* gates), so its eigenvalues are |w|^2 and 0 and the column taken is w    *)
(* scaled as LAPACK's zgeev scales it: to unit norm, with the component of *)
(* largest magnitude real and positive.  When both components have the     *)
(* same magnitude rounding decides which one is made real: both results    *)
(* are outcomes.  eig of the zero matrix gives the identity's columns.     *)
(***************************************************************************)
EigStates(dm) ==
    LET w == IF dm.m[1][1] # CZero \/ dm.m[2][1] # CZero
             THEN <<dm.m[1][1], dm.m[2][1]>>
             ELSE <<dm.m[1][2], dm.m[2][2]>>
        n == CAbsSq(w[1]) + CAbsSq(w[2])
        big == {i \in 1..2 : \A j \in 1..2 : CAbsSq(w[i]) >= CAbsSq(w[j])}
    IN  IF n = 0 THEN {Ket0}
        ELSE {Vec(CMul(w[1], CConj(w[i])), CMul(w[2], CConj(w[i])),
                  Log2(n) + Log2(CAbsSq(w[i]))) : i \in big}

\* Tetron.apply_single_qubit_gate: the set of tetrons it may leave
apply_single_qubit_gate(t, gate_matrix) ==
    IF t.use_dm /\ t.dm # <<>>
    THEN LET dm == MatMul(MatMul(gate_matrix, t.dm[1]), Dagger(gate_matrix))
         IN  {[t EXCEPT !.dm = <<dm>>, !.state = s,
                        !.history = Append(@, <<"gate", gate_matrix>>)]
              : s \in EigStates(dm)}
    ELSE {[t EXCEPT !.state = MatVec(gate_matrix, @),
                    !.history = Append(@, <<"gate", gate_matrix>>)]}

\* basis.upper()
Upper(basis) ==
    CASE basis = "z" -> "Z"
      [] basis = "x" -> "X"
      [] OTHER -> basis

(***************************************************************************)
(* int(np.random.choice([0, 1], p=probs)) for the draw u / DrawDen, with   *)
(* probs = <<p[1], p[2]>> / den: ValueError (-1 here) unless the           *)
(* probabilities sum to 1; otherwise the number of entries of the          *)
(* cumulative sums <<p[1], 1>> that are <= the draw (searchsorted, right). *)
(***************************************************************************)
\* RandomChoice with searchsorted(side='left'): counts the cumulative sums
\* that are < the draw, so that a draw of 0 selects an outcome of probability 0
RandomChoiceLeft(p, den, u) ==
    IF p[1] + p[2] # den THEN -1
    ELSE IF p[1] * DrawDen < u * den THEN 1 ELSE 0

RandomChoice(p, den, u) ==
    IF p[1] + p[2] # den THEN -1
    ELSE IF p[1] * DrawDen <= u * den THEN 1 ELSE 0

\* the probabilities Tetron.measure computes, as <<numerators, denominator>>
MeasureProbs(state, basis) ==
    IF Upper(basis) = "Z"
    THEN <<<<CAbsSq(state.c[1]), CAbsSq(state.c[2])>>, Pow2(state.k)>>
    ELSE <<<<CAbsSq(CAdd(state.c[1], state.c[2])),
             CAbsSq(CSub(state.c[1], state.c[2]))>>, Pow2(state.k + 1)>>

Projector(basis, outcome) ==
    IF Upper(basis) = "Z"
    THEN (IF outcome = 0 THEN Ket0 ELSE Ket1)
    ELSE (IF outcome = 0 THEN KetPlus ELSE KetMinus)

\* measure without the collapse: the state and the density matrix stay
measureNoCollapse(t, basis, u) ==
    IF Upper(basis) \notin {"Z", "X"}
    THEN [t |-> t, outcome |-> -1, err |-> "ValueError"]
    ELSE LET pr == MeasureProbs(t.state, basis)
             outcome == RandomChoice(pr[1], pr[2], u)
         IN  IF outcome < 0
             THEN [t |-> t, outcome |-> -1, err |-> "ValueError"]
             ELSE [t |-> [t EXCEPT !.history = Append(@, <<"measure", basis, outcome>>)],
                   outcome |-> outcome, err |-> ""]

\* Tetron.measure with the draw u: [t, outcome, err]
measure(t, basis, u) ==
    IF Upper(basis) \notin {"Z", "X"}
    THEN [t |-> t, outcome |-> -1, err |-> "ValueError"]
    ELSE LET pr == MeasureProbs(t.state, basis)
             outcome == RandomChoice(pr[1], pr[2], u)
             proj == Projector(basis, outcome)
         IN  IF outcome < 0
             THEN [t |-> t, outcome |-> -1, err |-> "ValueError"]
             ELSE [t |-> [t EXCEPT !.state = proj,
                                   !.dm = IF t.use_dm THEN <<Outer(proj)>> ELSE @,
                                   !.history = Append(@, <<"measure", basis, outcome>>)],
                   outcome |-> outcome, err |-> ""]

\* Tetron.reset
reset(t) ==
    [t EXCEPT !.state = Ket0,
              !.dm = IF t.use_dm THEN <<Outer(Ket0)>> ELSE @,
              !.history = Append(@, <<"reset">>)]

(***************************************************************************)
(* The record of the last call of a method that acts on qubits or returns  *)
(* a value: op (the method), arg (its arguments), status ("ok" or the      *)
(* exception raised) and ret (what it returned).  NoCall after any other   *)
(* call.                                                                   *)
(***************************************************************************)
Call(op, arg, status, ret) ==
    [op |-> op, arg |-> arg, status |-> status, ret |-> ret]
NoCall == Call("", <<>>, "ok", <<>>)

\* a StabilizerCode (stabilizer.py): num_qubits and the list of stabilizers;
\* NoCode where the program has created none
StabilizerCode(num_qubits) == [num_qubits |-> num_qubits, stabilizers |-> <<>>]
NoCode == StabilizerCode(0)

Draws == 0..(DrawDen - 1)

(***************************************************************************)
(* SpecTetron: one Tetron, created with either representation, and any     *)
(* sequence of calls of its methods.                                       *)
(***************************************************************************)
TetronGates == {HGate, SGate, BraidingGate(1, "X"), TwoGate}
TetronBases == {"Z", "X", "z", "Y"}

InitTetron ==
    /\ \E use_dm \in BOOLEAN : qubits = <<Tetron(use_dm)>>
    /\ operations = <<>>
    /\ call = NoCall
    /\ code = NoCode

TetronGate ==
    /\ Len(qubits[1].history) < MaxCalls
    /\ \E g \in TetronGates :
         \E t \in apply_single_qubit_gate(qubits[1], GateMatrix(g)) :
           /\ qubits' = <<t>>
           /\ call' = Call("apply_single_qubit_gate", g, "ok", <<>>)
    /\ UNCHANGED <<operations, code>>

TetronMeasure ==
    /\ Len(qubits[1].history) < MaxCalls
    /\ \E basis \in TetronBases, u \in Draws :
         LET r == measure(qubits[1], basis, u) IN
           /\ qubits' = <<r.t>>
           /\ call' = Call("measure", [basis |-> basis, u |-> u],
                           IF r.err = "" THEN "ok" ELSE r.err, r.outcome)
    /\ UNCHANGED <<operations, code>>

TetronReset ==
    /\ Len(qubits[1].history) < MaxCalls
    /\ qubits' = <<reset(qubits[1])>>
    /\ call' = Call("reset", <<>>, "ok", <<>>)
    /\ UNCHANGED <<operations, code>>

NextTetron == TetronGate \/ TetronMeasure \/ TetronReset

SpecTetron == InitTetron /\ [][NextTetron]_vars

(***************************************************************************)
(* circuit.py.  An operation is a record with the fields of every kind of  *)
(* operation tuple: kind (op[0]), q (op[1] of a gate, measure or reset),   *)
(* qs (op[1] of a multi_gate), gate and basis (op[2]).                     *)
(***************************************************************************)
GateOp(q, g) ==
    [kind |-> "gate", q |-> q, qs |-> <<>>, gate |-> g, basis |-> ""]
MultiGateOp(qs, g) ==
    [kind |-> "multi_gate", q |-> 0, qs |-> qs, gate |-> g, basis |-> ""]
MeasureOp(q, basis) ==
    [kind |-> "measure", q |-> q, qs |-> <<>>, gate |-> NoGate, basis |-> basis]
ResetOp(q) ==
    [kind |-> "reset", q |-> q, qs |-> <<>>, gate |-> NoGate, basis |-> ""]

\* self.qubits[i] of a Python list of n elements: the position 1..n, or 0
\* for IndexError.  A negative i counts from the end of the list.
PyIndex(n, i) ==
    IF 0 <= i /\ i < n THEN i + 1
    ELSE IF -n <= i /\ i < 0 THEN n + i + 1
    ELSE 0

\* the dict Circuit.run returns: meas maps the integer keys to outcomes,
\* multi holds the index lists L of the keys "multi_L"
NoResults == [meas |-> <<>>, multi |-> {}]
\* SetKey as results.setdefault(key, val): the first value of a key stays
SetKeyFirst(f, key, val) ==
    [x \in DOMAIN f \cup {key} |-> IF x \in DOMAIN f THEN f[x] ELSE val]

\* results[key] = val
SetKey(f, key, val) ==
    [x \in DOMAIN f \cup {key} |-> IF x = key THEN val ELSE f[x]]

RunOut(qs, status, results) ==
    [qubits |-> qs, status |-> status, results |-> results]

\* RunFrom with a multi_gate operation recorded in the history of its qubits
RECURSIVE RunFromTouching(_, _, _, _)
RunFromTouching(qs, ops, i, results) ==
    IF i > Len(ops) THEN {RunOut(qs, "ok", results)}
    ELSE LET op == ops[i]
             idx == PyIndex(Len(qs), op.q)
         IN  CASE op.kind = "gate" ->
                    IF idx = 0 THEN {RunOut(qs, "IndexError", results)}
                    ELSE UNION {RunFromTouching([qs EXCEPT ![idx] = t], ops, i + 1, results)
                                : t \in apply_single_qubit_gate(qs[idx], GateMatrix(op.gate))}
               [] op.kind = "multi_gate" ->
                    RunFromTouching(
                      [x \in 1..Len(qs) |->
                         IF \E y \in 1..Len(op.qs) : PyIndex(Len(qs), op.qs[y]) = x
                         THEN [qs[x] EXCEPT !.history =
                                 Append(@, <<"gate", GateMatrix(op.gate)>>)]
                         ELSE qs[x]],
                      ops, i + 1, [results EXCEPT !.multi = @ \cup {op.qs}])
               [] op.kind = "measure" ->
                    IF idx = 0 THEN {RunOut(qs, "IndexError", results)}
                    ELSE UNION {LET r == measure(qs[idx], op.basis, u) IN
                                  IF r.err # "" THEN {RunOut(qs, r.err, results)}
                                  ELSE RunFromTouching([qs EXCEPT ![idx] = r.t], ops, i + 1,
                                               [results EXCEPT
                                                  !.meas = SetKey(@, op.q, r.outcome)])
                                : u \in Draws}
               [] op.kind = "reset" ->
                    IF idx = 0 THEN {RunOut(qs, "IndexError", results)}
                    ELSE RunFromTouching([qs EXCEPT ![idx] = reset(qs[idx])], ops, i + 1, results)
               [] OTHER -> RunFromTouching(qs, ops, i + 1, results)


(***************************************************************************)
(* Circuit.run from operation i on, with the results so far: the set of    *)
(* its outcomes, one for each sequence of random draws.  An exception      *)
(* leaves the loop with the qubits as the earlier operations left them.    *)
(***************************************************************************)
RECURSIVE RunFrom(_, _, _, _)
RunFrom(qs, ops, i, results) ==
    IF i > Len(ops) THEN {RunOut(qs, "ok", results)}
    ELSE LET op == ops[i]
             idx == PyIndex(Len(qs), op.q)
         IN  CASE op.kind = "gate" ->
                    IF idx = 0 THEN {RunOut(qs, "IndexError", results)}
                    ELSE UNION {RunFrom([qs EXCEPT ![idx] = t], ops, i + 1, results)
                                : t \in apply_single_qubit_gate(qs[idx], GateMatrix(op.gate))}
               [] op.kind = "multi_gate" ->
                    RunFrom(qs, ops, i + 1,
                            [results EXCEPT !.multi = @ \cup {op.qs}])
               [] op.kind = "measure" ->
                    IF idx = 0 THEN {RunOut(qs, "IndexError", results)}
                    ELSE UNION {LET r == measure(qs[idx], op.basis, u) IN
                                  IF r.err # "" THEN {RunOut(qs, r.err, results)}
                                  ELSE RunFrom([qs EXCEPT ![idx] = r.t], ops, i + 1,
                                               [results EXCEPT
                                                  !.meas = SetKey(@, op.q, r.outcome)])
                                : u \in Draws}
               [] op.kind = "reset" ->
                    IF idx = 0 THEN {RunOut(qs, "IndexError", results)}
                    ELSE RunFrom([qs EXCEPT ![idx] = reset(qs[idx])], ops, i + 1, results)
               [] OTHER -> RunFrom(qs, ops, i + 1, results)

\* Circuit.run
CircuitRun(qs, ops) == RunFrom(qs, ops, 1, NoResults)

(***************************************************************************)
(* error_model.py: AssignmentError(p_a).apply(outcome) with the draw       *)
(* r / DrawDen of np.random.rand(); p_a is p / DrawDen.                    *)
(***************************************************************************)
\* AssignmentApply with the test rand() <= p_a
AssignmentApplyLe(p, outcome, r) ==
    IF r <= p THEN 1 - outcome ELSE outcome

AssignmentApply(p, outcome, r) ==
    IF r < p THEN 1 - outcome ELSE outcome

(***************************************************************************)
(* simulation.py.  assign_error_model is <<>> for None and <<p>> for       *)
(* AssignmentError(p / DrawDen).                                           *)
(***************************************************************************)
\* the slot of a qubit the shot did not measure
None == -1

\* the loop over shot_result of Simulation.run: the outcomes [status, shot].
\* apply on the string a multi_gate left raises TypeError when it flips.
AssignShot(shot, model) ==
    IF model = <<>> THEN {[status |-> "ok", shot |-> shot]}
    ELSE LET flipped == {[shot EXCEPT !.meas =
                             [x \in DOMAIN shot.meas |->
                                AssignmentApply(model[1], shot.meas[x], r[x])]]
                         : r \in [DOMAIN shot.meas -> Draws]}
         IN  {[status |-> "ok", shot |-> f]
              : f \in IF shot.multi = {} \/ \E r \in Draws : ~(r < model[1])
                      THEN flipped ELSE {}}
             \cup
             {[status |-> "TypeError", shot |-> shot]
              : x \in IF shot.multi # {} /\ \E r \in Draws : r < model[1]
                      THEN {0} ELSE {}}

\* Circuit.clear_operations
clear_operations(ops) == <<>>

\* the operations a shot of Simulation.run replays
ShotOperations(ops) == clear_operations(ops)

SimOut(qs, ops, status, results) ==
    [qubits |-> qs, operations |-> ops, status |-> status, results |-> results]

\* the shots of Simulation.run that remain, with the results so far
RECURSIVE ShotLoop(_, _, _, _, _)
ShotLoop(qs, ops, remaining, results, model) ==
    IF remaining <= 0 THEN {SimOut(qs, ops, "ok", results)}
    ELSE LET shot_ops == ShotOperations(ops) IN
         UNION {IF out.status # "ok"
                THEN {SimOut(out.qubits, shot_ops, out.status, results)}
                ELSE UNION {IF a.status # "ok"
                            THEN {SimOut(out.qubits, shot_ops, a.status, results)}
                            ELSE ShotLoop(out.qubits, shot_ops, remaining - 1,
                                          Append(results, a.shot), model)
                            : a \in AssignShot(out.results, model)}
                : out \in CircuitRun(qs, shot_ops)}

\* tuple(shot.get(i, None) for i in range(len(self.circuit.qubits)))
ShotKey(shot, n) ==
    [i \in 1..n |-> IF (i - 1) \in DOMAIN shot.meas THEN shot.meas[i - 1] ELSE None]

\* aggregate_results with histogram[key] = 1 in place of the tally
aggregateNoTally(results, n) ==
    [key \in {ShotKey(results[i], n) : i \in 1..Len(results)} |-> 1]

\* Simulation.aggregate_results
aggregate_results(results, n) ==
    [key \in {ShotKey(results[i], n) : i \in 1..Len(results)} |->
       Cardinality({i \in 1..Len(results) : ShotKey(results[i], n) = key})]

\* Simulation.run(shots): the outcomes [qubits, operations, status, results],
\* results being the histogram
SimulationRun(qs, ops, shots, model) ==
    {[o EXCEPT !.results = IF o.status = "ok"
                           THEN aggregate_results(o.results, Len(o.qubits))
                           ELSE <<>>]
     : o \in ShotLoop(qs, ops, shots, <<>>, model)}

(***************************************************************************)
(* optimizer.py.  np.allclose(M, np.eye(2)) holds when every entry of M    *)
(* is within atol + rtol * |eye entry| of the entry of eye, with numpy's   *)
(* defaults rtol = 10^-5 and atol = 10^-8:  |m - 1| <= 1001 / 10^8 on the  *)
(* diagonal and |m| <= 1 / 10^8 off it.  For the entry <<x, y>> /          *)
(* sqrt(2)^k the tests are decided in integers:                            *)
(*   off the diagonal  x^2 + y^2 <= 2^k / 10^16, which for k < 54 holds    *)
(*     only of 0 (2^53 < 10^16);                                           *)
(*   on it, k = 2j:  (x - 2^j)^2 + y^2 <= (1001 * 2^j)^2 / 10^16, with the *)
(*     quotient's integer part computed in two halves of 1001 * 2^j;       *)
(*   on it, k odd:   a^2 - 2^k is a nonzero integer, so |a/sqrt(2)^k - 1|  *)
(*     is more than 1001 / 10^8 whenever k < 17.                           *)
(***************************************************************************)
Abs(x) == IF x < 0 THEN -x ELSE x
Tenth4 == 10 * 10 * 10 * 10
Tenth8 == Tenth4 * Tenth4

OffDiagClose(e, k) ==
    \/ e = CZero
    \/ k >= 54 /\ CAbsSq(e) <= (Pow2(k) \div Tenth8) \div Tenth8

DiagClose(e, k) ==
    IF k % 2 = 0
    THEN LET q == 1001 * Pow2(k \div 2)
             qh == q \div Tenth4
             ql == q % Tenth4
             bound == (qh * qh + ((2 * qh * ql + ((ql * ql) \div Tenth4)) \div Tenth4))
                         \div Tenth8
             dx == e[1] - Pow2(k \div 2)
             dy == e[2]
         IN  /\ Abs(dx) <= q \div Tenth8
             /\ Abs(dy) <= q \div Tenth8
             /\ dx * dx + dy * dy <= bound
    ELSE /\ k >= 17
         /\ e[1] > 0
         /\ LET lhs == CAbsSq(e) * Tenth8 * Tenth8
                         + Pow2(k) * (Tenth8 * Tenth8 - 1001 * 1001)
            IN  lhs * lhs <= 4 * e[1] * e[1] * Pow2(k) * Tenth8 * Tenth8 * Tenth8 * Tenth8

\* AllCloseEye with the test of the entries off the diagonal only
AllCloseEyeOffDiag(M) ==
    /\ OffDiagClose(M.m[1][2], M.k)
    /\ OffDiagClose(M.m[2][1], M.k)

\* np.allclose(M, np.eye(2))
AllCloseEye(M) ==
    /\ OffDiagClose(M.m[1][2], M.k)
    /\ OffDiagClose(M.m[2][1], M.k)
    /\ DiagClose(M.m[1][1], M.k)
    /\ DiagClose(M.m[2][2], M.k)

\* MergeRun with the product taken in the other order (merged @ gate)
RECURSIVE MergeRunReversed(_, _, _, _)
MergeRunReversed(ops, j, qubit_idx, merged_matrix) ==
    IF j <= Len(ops) /\ ops[j].kind = "gate" /\ ops[j].q = qubit_idx
    THEN MergeRunReversed(ops, j + 1, qubit_idx,
                          MatMul(merged_matrix, GateMatrix(ops[j].gate)))
    ELSE <<merged_matrix, j>>

\* MergeRun without the test of the qubit index
RECURSIVE MergeRunAnyQubit(_, _, _, _)
MergeRunAnyQubit(ops, j, qubit_idx, merged_matrix) ==
    IF j <= Len(ops) /\ ops[j].kind = "gate"
    THEN MergeRunAnyQubit(ops, j + 1, qubit_idx,
                          MatMul(GateMatrix(ops[j].gate), merged_matrix))
    ELSE <<merged_matrix, j>>

\* MergeRun with an if in place of the while: one gate absorbed at most
MergeRunOnce(ops, j, qubit_idx, merged_matrix) ==
    IF j <= Len(ops) /\ ops[j].kind = "gate" /\ ops[j].q = qubit_idx
    THEN <<MatMul(GateMatrix(ops[j].gate), merged_matrix), j + 1>>
    ELSE <<merged_matrix, j>>

\* the inner while loop of optimize_circuit: <<merged_matrix, j>>
RECURSIVE MergeRun(_, _, _, _)
MergeRun(ops, j, qubit_idx, merged_matrix) ==
    IF j <= Len(ops) /\ ops[j].kind = "gate" /\ ops[j].q = qubit_idx
    THEN MergeRun(ops, j + 1, qubit_idx,
                  MatMul(GateMatrix(ops[j].gate), merged_matrix))
    ELSE <<merged_matrix, j>>

\* the outer while loop of optimize_circuit from operation i on
RECURSIVE OptimizeFrom(_, _, _)
OptimizeFrom(ops, i, new_ops) ==
    IF i > Len(ops) THEN new_ops
    ELSE IF ops[i].kind = "gate"
         THEN LET r == MergeRun(ops, i + 1, ops[i].q, GateMatrix(ops[i].gate))
              IN  OptimizeFrom(ops, r[2],
                               IF ~AllCloseEye(r[1])
                               THEN Append(new_ops, GateOp(ops[i].q, GenericGate(r[1])))
                               ELSE new_ops)
         ELSE OptimizeFrom(ops, i + 1, Append(new_ops, ops[i]))

\* optimize_circuit: the new circuit.operations
optimize_circuit(ops) == OptimizeFrom(ops, 1, <<>>)

(***************************************************************************)
(* Spec: a client of one Circuit.  It adds qubits, all of one               *)
(* representation, and records operations while the qubits are fresh, and  *)
(* runs, simulates and clears the circuit at any time.                     *)
(***************************************************************************)
\* the operations a client records: gates, measurements and resets on the
\* valid indices, a measurement on -1 and a gate on the index one past the
\* last qubit, a matrix that is not unitary, a basis that is not supported
GateInputs == {<<HGate, 0>>, <<HGate, 1>>, <<TwoGate, 0>>, <<HGate, MaxQubits>>}
MeasureInputs == {<<0, "Z">>, <<1, "Z">>, <<-1, "Z">>, <<0, "X">>, <<0, "Y">>}
ResetInputs == {0}
\* the shots and the assignment-error models a client passes: no model and
\* the model that flips every outcome
ShotInputs == {-1, 0, 1, MaxShots}
AssignModels == {<<>>, <<DrawDen>>}

Fresh == \A i \in 1..Len(qubits) : qubits[i].history = <<>>
RECURSIVE HistoryTotal(_)
HistoryTotal(qs) ==
    IF qs = <<>> THEN 0 ELSE Len(Head(qs).history) + HistoryTotal(Tail(qs))
HistoryBounded(qs) == HistoryTotal(qs) <= MaxHist

Init ==
    /\ qubits = <<>>
    /\ operations = <<>>
    /\ call = NoCall
    /\ code = NoCode

\* Circuit.add_qubit(Tetron(use_dm))
add_qubit ==
    /\ Fresh
    /\ Len(qubits) < MaxQubits
    /\ \E use_dm \in BOOLEAN :
         /\ qubits # <<>> => use_dm = qubits[1].use_dm
         /\ qubits' = Append(qubits, Tetron(use_dm))
    /\ call' = NoCall
    /\ UNCHANGED <<operations, code>>

\* Circuit.apply_gate(gate, qubit_index)
apply_gate ==
    /\ Fresh
    /\ Len(operations) < MaxOps
    /\ \E in \in GateInputs :
         operations' = Append(operations, GateOp(in[2], in[1]))
    /\ call' = NoCall
    /\ UNCHANGED <<qubits, code>>

\* Circuit.apply_multi_qubit_gate(CZGate(), [0, 1])
apply_multi_qubit_gate ==
    /\ Fresh
    /\ Len(operations) < MaxOps
    /\ operations' = Append(operations, MultiGateOp(<<0, 1>>, CZGate))
    /\ call' = NoCall
    /\ UNCHANGED <<qubits, code>>

\* Circuit.measure(qubit_index, basis)
circuit_measure ==
    /\ Fresh
    /\ Len(operations) < MaxOps
    /\ \E in \in MeasureInputs :
         operations' = Append(operations, MeasureOp(in[1], in[2]))
    /\ call' = NoCall
    /\ UNCHANGED <<qubits, code>>

\* Circuit.reset(qubit_index), and Circuit.reset() for every qubit
circuit_reset ==
    /\ Fresh
    /\ \/ /\ Len(operations) < MaxOps
          /\ \E i \in ResetInputs : operations' = Append(operations, ResetOp(i))
       \/ /\ Len(operations) + Len(qubits) <= MaxOps
          /\ operations' = operations \o [i \in 1..Len(qubits) |-> ResetOp(i - 1)]
    /\ call' = NoCall
    /\ UNCHANGED <<qubits, code>>

\* Circuit.clear_operations()
circuit_clear ==
    /\ operations' = clear_operations(operations)
    /\ call' = NoCall
    /\ UNCHANGED <<qubits, code>>

\* Circuit.run()
circuit_run ==
    \E out \in CircuitRun(qubits, operations) :
      /\ HistoryBounded(out.qubits)
      /\ qubits' = out.qubits
      /\ call' = Call("run", <<>>, out.status,
                      IF out.status = "ok" THEN out.results ELSE NoResults)
      /\ UNCHANGED <<operations, code>>

\* Simulation(circuit, assign_error_model=model).run(shots)
simulation_run ==
    \E shots \in ShotInputs, model \in AssignModels :
      \E out \in SimulationRun(qubits, operations, shots, model) :
        /\ HistoryBounded(out.qubits)
        /\ qubits' = out.qubits
        /\ operations' = out.operations
        /\ call' = Call("Simulation.run", [shots |-> shots, model |-> model],
                        out.status, out.results)
        /\ UNCHANGED code

\* optimize_circuit(circuit)
optimize ==
    /\ operations' = optimize_circuit(operations)
    /\ call' = Call("optimize_circuit", operations, "ok", <<>>)
    /\ UNCHANGED <<qubits, code>>

Next ==
    \/ add_qubit
    \/ apply_gate
    \/ apply_multi_qubit_gate
    \/ circuit_measure
    \/ circuit_reset
    \/ circuit_clear
    \/ circuit_run
    \/ simulation_run

Spec == Init /\ [][Next]_vars

(***************************************************************************)
(* SpecOpt: optimize_circuit on every operation list of at most MaxOptLen  *)
(* operations over OptOps.  NearEyeGate holds diag(1 + 2^-17, 1), which is *)
(* not the identity and is within np.allclose's tolerance of it; a list    *)
(* holds it at most once (the entries of its square pass 2^31).            *)
(***************************************************************************)
NearEyeGate ==
    GenericGate(Mat(<<Pow2(17) + 1, 0>>, CZero, CZero, <<Pow2(17), 0>>, 34))

OptOps ==
    {GateOp(0, HGate), GateOp(0, SGate), GateOp(1, HGate),
     GateOp(0, BraidingGate(0, "X")), GateOp(1, BraidingGate(0, "X")),
     GateOp(0, NearEyeGate),
     MeasureOp(0, "Z"), ResetOp(0), MultiGateOp(<<0, 1>>, CZGate)}

OptLists ==
    {l \in UNION {[1..n -> OptOps] : n \in 0..MaxOptLen} :
       Cardinality({i \in DOMAIN l : l[i] = GateOp(0, NearEyeGate)}) <= 1}

InitOpt ==
    /\ qubits = <<Tetron(FALSE), Tetron(FALSE)>>
    /\ operations \in OptLists
    /\ call = NoCall
    /\ code = NoCode

NextOpt == optimize

SpecOpt == InitOpt /\ [][NextOpt]_vars

(***************************************************************************)
(* Claims about Simulation.run and Circuit.run (Spec).                     *)
(***************************************************************************)
IsSimRun(c) == c.op = "Simulation.run"
IsRun(c) == c.op = "run"

\* C1: Simulation.run(S), S >= 1, with no assignment-error model on a
\* one-qubit circuit that holds reset(0), measure(0, 'Z') returns the
\* histogram with the single key (0,) and the count S.
C1_SingleKeyHistogram ==
    [][(/\ Len(qubits) = 1
        /\ operations = <<ResetOp(0), MeasureOp(0, "Z")>>
        /\ IsSimRun(call')
        /\ call'.arg.model = <<>>
        /\ call'.arg.shots >= 1)
       => (/\ call'.status = "ok"
           /\ call'.ret = (<<0>> :> call'.arg.shots))]_vars

\* C2: Simulation.run leaves circuit.operations as it was before the call.
C2_OperationsKept ==
    [][IsSimRun(call') => operations' = operations]_vars

\* C3: when Circuit.run fails, no qubit's state or history has been changed
\* by the operations before the failing one.
C3_NoPartialFailure ==
    [][(IsRun(call') /\ call'.status # "ok") => qubits' = qubits]_vars

\* the operations of a gate, measure or reset whose index is not in
\* 0 .. number of qubits - 1
BadIndexOps(ops, n) ==
    {p \in 1..Len(ops) :
       /\ ops[p].kind \in {"gate", "measure", "reset"}
       /\ ~(0 <= ops[p].q /\ ops[p].q < n)}

\* C4: Circuit.run fails with IndexError when it reaches an operation whose
\* index is out of range: it does not complete, and it raises IndexError
\* when no measurement (the one operation that may fail otherwise) comes
\* before the first such operation.
C4_IndexChecked ==
    [][IsRun(call') =>
         LET bad == BadIndexOps(operations, Len(qubits)) IN
           bad # {} =>
             /\ call'.status # "ok"
             /\ (\A p \in bad : \A x \in 1..(p - 1) : operations[x].kind # "measure")
                  => call'.status = "IndexError"]_vars

\* C5: Simulation.run(shots) with shots <= 0 is rejected with a validation
\* error.
C5_ShotsValidated ==
    (IsSimRun(call) /\ call.arg.shots <= 0) => call.status = "ValueError"

\* the operations of ops that act on the qubit at position x of n qubits
OpsOn(ops, n, x) ==
    SelectSeq(ops, LAMBDA op : /\ op.kind \in {"gate", "measure", "reset"}
                               /\ PyIndex(n, op.q) = x)

\* the history entry e is the one the operation op appends
EntryMatches(e, op) ==
    /\ e[1] = op.kind
    /\ CASE op.kind = "gate" -> e[2] = GateMatrix(op.gate)
         [] op.kind = "measure" -> e[2] = op.basis /\ e[3] \in {0, 1}
         [] OTHER -> TRUE

\* every qubit's history grows by one entry for each operation on it, in
\* list order
ReplayedOnce(ops, old, new) ==
    \A x \in 1..Len(old) :
      LET on == OpsOn(ops, Len(old), x)
          h0 == old[x].history
          h1 == new[x].history
      IN  /\ Len(h1) = Len(h0) + Len(on)
          /\ SubSeq(h1, 1, Len(h0)) = h0
          /\ \A k \in 1..Len(on) : EntryMatches(h1[Len(h0) + k], on[k])

MeasuredKeys(ops) == {ops[p].q : p \in {x \in 1..Len(ops) : ops[x].kind = "measure"}}
MultiKeys(ops) == {ops[p].qs : p \in {x \in 1..Len(ops) : ops[x].kind = "multi_gate"}}

\* the outcome that the last measure operation recorded with index i appended
\* to the history of its qubit
LastOutcome(ops, old, new, i) ==
    LET x == PyIndex(Len(old), i)
        on == OpsOn(ops, Len(old), x)
        k == CHOOSE c \in 1..Len(on) :
               /\ on[c].kind = "measure" /\ on[c].q = i
               /\ \A d \in (c + 1)..Len(on) : ~(on[d].kind = "measure" /\ on[d].q = i)
    IN  new[x].history[Len(old[x].history) + k][3]

\* C8 (as amended): a Circuit.run that returns has replayed the operations
\* once in list order; the keys of the mapping are the indices recorded in
\* the measure operations and one placeholder key for the index list of
\* each multi_gate operation; the value of an index is the outcome of the
\* last measure operation recorded with that index.
C8_RunResults ==
    [][(IsRun(call') /\ call'.status = "ok") =>
         /\ ReplayedOnce(operations, qubits, qubits')
         /\ DOMAIN call'.ret.meas = MeasuredKeys(operations)
         /\ call'.ret.multi = MultiKeys(operations)
         /\ \A i \in DOMAIN call'.ret.meas :
              call'.ret.meas[i] = LastOutcome(operations, qubits, qubits', i)]_vars

\* two measurements of qubit 0 with different outcomes: the last one is
\* the value of key 0
C8_Witness ==
    /\ IsRun(call) /\ call.status = "ok"
    /\ operations = <<MeasureOp(0, "Z"), MeasureOp(0, "X")>>
    /\ call.ret.meas = (0 :> 1)

\* C8 as stated: the key set of the mapping is exactly the set of measured
\* qubit indices, with the outcome of the last measure as the value.
C8_OnlyMeasuredKeys ==
    [][(IsRun(call') /\ call'.status = "ok") =>
         /\ ReplayedOnce(operations, qubits, qubits')
         /\ call'.ret.multi = {}
         /\ DOMAIN call'.ret.meas = MeasuredKeys(operations)
         /\ \A i \in DOMAIN call'.ret.meas :
              call'.ret.meas[i] = LastOutcome(operations, qubits, qubits', i)]_vars

(***************************************************************************)
(* Claims about Tetron (SpecTetron).                                       *)
(***************************************************************************)
\* C9: the state vector of a Tetron has unit norm in every reachable state.
C9_UnitNorm ==
    \A i \in 1..Len(qubits) : UnitNorm(qubits[i].state)

\* C10: Tetron.measure never returns an outcome whose probability in the
\* measured basis is zero; |0> measured in Z and (|0>+|1>)/sqrt(2) measured
\* in X return 0 whatever the draw.
C10_NoZeroProbabilityOutcome ==
    [][(call'.op = "measure" /\ call'.status = "ok") =>
         LET state == qubits[1].state
             basis == Upper(call'.arg.basis)
             probs == MeasureProbs(state, basis)[1]
         IN  /\ probs[call'.ret + 1] > 0
             /\ (state = Ket0 /\ basis = "Z") => call'.ret = 0
             /\ (state = KetPlus /\ basis = "X") => call'.ret = 0]_vars

\* H |0> measured in X with the largest draw
C10_Witness ==
    /\ call.op = "measure" /\ call.status = "ok"
    /\ call.arg.u = DrawDen - 1
    /\ qubits[1].history = <<<<"gate", GateMatrix(HGate)>>, <<"measure", "X", 0>>>>

(***************************************************************************)
(* Claims about optimize_circuit (SpecOpt).  in is the operation list the  *)
(* call was given and out the list it left in the circuit.  A run is a     *)
(* maximal sequence of consecutive gate operations on one qubit index; a   *)
(* unit of the input is a run or one operation that is not a gate.         *)
(***************************************************************************)
IsOptimize(c) == c.op = "optimize_circuit"
IsGate(op) == op.kind = "gate"

\* the operation at p continues the run of the operation before it
ContinuesRun(in, p) ==
    /\ p > 1
    /\ IsGate(in[p]) /\ IsGate(in[p - 1])
    /\ in[p].q = in[p - 1].q

RunStart(in, p) == IsGate(in[p]) /\ ~ContinuesRun(in, p)
UnitStart(in, p) == ~ContinuesRun(in, p)

\* the last operation of the run that starts at s
RunEnd(in, s) ==
    CHOOSE e \in s..Len(in) :
      /\ \A x \in (s + 1)..e : ContinuesRun(in, x)
      /\ e = Len(in) \/ ~ContinuesRun(in, e + 1)

IsLone(in, s) == RunStart(in, s) /\ RunEnd(in, s) = s

\* g_e * ... * g_s, the matrices of the operations s..e composed in
\* application order
RECURSIVE Product(_, _, _)
Product(in, s, e) ==
    IF s = e THEN GateMatrix(in[s].gate)
    ELSE MatMul(Product(in, s + 1, e), GateMatrix(in[s].gate))

RunProduct(in, s) == Product(in, s, RunEnd(in, s))

\* the unit that starts at s leaves no operation in the output, when
\*   "allclose": runs are dropped that np.allclose finds to be the identity
\*   "exact":    runs are dropped whose product is the identity
\*   "lone":     as "allclose", and a gate alone in its run is never dropped
Dropped(in, s, mode) ==
    /\ IsGate(in[s])
    /\ CASE mode = "allclose" -> AllCloseEye(RunProduct(in, s))
         [] mode = "exact" -> RunProduct(in, s) = Eye2
         [] OTHER -> ~IsLone(in, s) /\ AllCloseEye(RunProduct(in, s))

Kept(in, mode) ==
    {x \in 1..Len(in) : UnitStart(in, x) /\ ~Dropped(in, x, mode)}

\* the position in the output of the unit that starts at s
OutPos(in, s, mode) ==
    1 + Cardinality({x \in Kept(in, mode) : x < s})

\* the one operation that stands for the run that starts at s
Merged(in, s) == GateOp(in[s].q, GenericGate(RunProduct(in, s)))

RunsMerged(in, out, mode) ==
    /\ Len(out) = Cardinality(Kept(in, mode))
    /\ \A s \in 1..Len(in) :
         (RunStart(in, s) /\ ~Dropped(in, s, mode))
           => out[OutPos(in, s, mode)] = Merged(in, s)

\* C6 (as amended): optimize_circuit replaces every run g1..gN by no
\* operation when every entry of gN*...*g1 is within np.allclose's
\* tolerance of the identity's (|m - e| <= 1e-8 + 1e-5 * |e|), and
\* otherwise by exactly one GenericGate operation on that qubit whose
\* matrix is gN*...*g1.
C6_RunsMerged ==
    IsOptimize(call) => RunsMerged(call.arg, operations, "allclose")

\* the run H, S, H on qubit 0 became one operation
C6_Witness ==
    /\ IsOptimize(call)
    /\ call.arg = <<GateOp(0, HGate), GateOp(0, SGate), GateOp(0, HGate)>>
    /\ Len(operations) = 1

\* C6 as stated: a run is replaced by no operation if its product equals
\* the identity and by exactly one gate operation otherwise.
C6_ExactIdentity ==
    IsOptimize(call) => RunsMerged(call.arg, operations, "exact")

\* C7 (as amended): optimize_circuit copies every operation that is not a
\* gate through unchanged, in the same relative order and as a boundary
\* of the runs; a gate alone in its run is replaced by a GenericGate
\* operation with the same matrix on the same qubit, or dropped when its
\* matrix is within np.allclose's tolerance of the identity.
C7_Boundaries ==
    IsOptimize(call) =>
      LET in == call.arg
          out == operations
      IN  /\ Len(out) = Cardinality(Kept(in, "allclose"))
          /\ \A p \in 1..Len(in) :
               /\ ~IsGate(in[p]) => out[OutPos(in, p, "allclose")] = in[p]
               /\ (IsLone(in, p) /\ ~AllCloseEye(GateMatrix(in[p].gate))) =>
                    out[OutPos(in, p, "allclose")]
                      = GateOp(in[p].q, GenericGate(GateMatrix(in[p].gate)))

\* two gates on qubit 0 that a measurement separates stay two operations
C7_Witness ==
    /\ IsOptimize(call)
    /\ call.arg = <<GateOp(0, HGate), MeasureOp(0, "Z"), GateOp(0, HGate)>>
    /\ Len(operations) = 3
    /\ operations[2] = MeasureOp(0, "Z")

\* C7 as stated: every operation that is not a gate and every gate alone in
\* its run appears in the output as the same operation, in the same
\* relative order.
C7_CopiedUnchanged ==
    IsOptimize(call) =>
      LET in == call.arg
          out == operations
      IN  \A p \in 1..Len(in) :
            (~IsGate(in[p]) \/ IsLone(in, p)) =>
              /\ OutPos(in, p, "lone") \in DOMAIN out
              /\ out[OutPos(in, p, "lone")] = in[p]

(***************************************************************************)
(* stabilizer.py.  A register state and a stabilizer's operator are numpy  *)
(* arrays of any dimension: a vector is a tuple of Gaussian integers and   *)
(* a matrix a tuple of rows (the Pauli matrices have integer entries).     *)
(***************************************************************************)
RECURSIVE SeqMax(_)
SeqMax(xs) ==
    IF Len(xs) = 1 THEN xs[1]
    ELSE LET r == SeqMax(Tail(xs)) IN IF xs[1] >= r THEN xs[1] ELSE r

\* xs.index(x): the first position of x, counted from 1
IndexOf(xs, x) == CHOOSE i \in 1..Len(xs) : xs[i] = x /\ \A j \in 1..(i - 1) : xs[j] # x

\* np.kron(A, B)
NpKron(A, B) ==
    LET a == Len(A)
        b == Len(B)
    IN  [r \in 1..(a * b) |->
          [c \in 1..(a * b) |->
            CMul(A[((r - 1) \div b) + 1][((c - 1) \div b) + 1],
                 B[((r - 1) % b) + 1][((c - 1) % b) + 1])]]

\* kron(ops) = reduce(np.kron, ops)
RECURSIVE kron(_)
kron(ops) ==
    IF Len(ops) = 1 THEN ops[1]
    ELSE NpKron(kron(SubSeq(ops, 1, Len(ops) - 1)), ops[Len(ops)])

\* Stabilizer.build_operator
build_operator(qubit_indices, paulis) ==
    LET total_qubits == SeqMax(qubit_indices) + 1
        op_list == [p \in 1..total_qubits |->
                      IF \E x \in 1..Len(qubit_indices) : qubit_indices[x] = p - 1
                      THEN pauli_operator(paulis[IndexOf(qubit_indices, p - 1)]).m
                      ELSE Eye2.m]
    IN  kron(op_list)

\* Stabilizer(qubit_indices, paulis), the lists of equal length
Stabilizer(qubit_indices, paulis) ==
    [qubit_indices |-> qubit_indices, paulis |-> paulis,
     operator |-> build_operator(qubit_indices, paulis)]

RECURSIVE CSum(_)
CSum(xs) == IF xs = <<>> THEN CZero ELSE CAdd(xs[1], CSum(Tail(xs)))

\* operator @ state
NpMatVec(M, v) == [r \in 1..Len(M) |-> CSum([c \in 1..Len(v) |-> CMul(M[r][c], v[c])])]

\* np.vdot(a, b)
NpVdot(a, b) == CSum([i \in 1..Len(a) |-> CMul(CConj(a[i]), b[i])])

\* Stabilizer.measure: [err, val]; the product of a matrix and a vector of
\* another dimension raises ValueError
stab_measure(stab, state) ==
    IF Len(stab.operator) # Len(state)
    THEN [err |-> "ValueError", val |-> CZero]
    ELSE [err |-> "", val |-> NpVdot(state, NpMatVec(stab.operator, state))]

\* 0 if np.real(exp_val) >= 0 else 1
SyndromeBitGe(exp_val) == IF exp_val[1] >= 0 THEN 0 ELSE 1

\* 0 if np.real(exp_val) > 0 else 1
SyndromeBit(exp_val) == IF exp_val[1] > 0 THEN 0 ELSE 1

\* StabilizerCode.measure_syndrome: [status, ret]
measure_syndrome(c, state) ==
    LET ms == [i \in 1..Len(c.stabilizers) |-> stab_measure(c.stabilizers[i], state)]
    IN  IF \E i \in 1..Len(ms) : ms[i].err # ""
        THEN [status |-> "ValueError", ret |-> <<>>]
        ELSE [status |-> "ok", ret |-> [i \in 1..Len(ms) |-> SyndromeBit(ms[i].val)]]

(***************************************************************************)
(* SpecStab: a StabilizerCode, the stabilizers added to it and the         *)
(* syndromes of one- and two-qubit register states.                        *)
(***************************************************************************)
StabInputs ==
    {<<<<0>>, <<"Z">>>>, <<<<0>>, <<"Y">>>>, <<<<1>>, <<"z">>>>,
     <<<<0, 1>>, <<"Z", "Z">>>>, <<<<0, 1>>, <<"X", "X">>>>,
     <<<<1, 0>>, <<"X", "Z">>>>}

\* register states: amplitude vectors of one qubit and of two qubits
StabStates ==
    LET o == <<0, 0>>
        p == <<1, 0>>
        m == <<-1, 0>>
    IN  {<<p, o>>, <<o, p>>, <<p, p>>, <<p, m>>, <<p, <<0, 1>>>>, <<o, o>>,
         <<p, o, o, o>>, <<o, p, o, o>>, <<o, o, o, p>>,
         <<p, o, o, p>>, <<p, o, o, m>>, <<o, p, p, o>>, <<o, p, m, o>>,
         <<p, p, p, p>>, <<p, m, p, m>>, <<p, p, o, o>>}

InitStab ==
    /\ qubits = <<>>
    /\ operations = <<>>
    /\ call = NoCall
    /\ \E n \in 1..MaxQubits : code = StabilizerCode(n)

\* StabilizerCode.add_stabilizer(Stabilizer(qubit_indices, paulis))
add_stabilizer ==
    /\ Len(code.stabilizers) < MaxStabs
    /\ \E s \in StabInputs :
         code' = [code EXCEPT !.stabilizers = Append(@, Stabilizer(s[1], s[2]))]
    /\ call' = NoCall
    /\ UNCHANGED <<qubits, operations>>

\* StabilizerCode.measure_syndrome(state), state a state of the register
\* of num_qubits qubits
code_measure_syndrome ==
    /\ \E state \in {v \in StabStates : Len(v) = Pow2(code.num_qubits)} :
         LET r == measure_syndrome(code, state)
         IN  call' = Call("measure_syndrome", state, r.status, r.ret)
    /\ UNCHANGED <<qubits, operations, code>>

NextStab == add_stabilizer \/ code_measure_syndrome

SpecStab == InitStab /\ [][NextStab]_vars

(***************************************************************************)
(* Claims about StabilizerCode (SpecStab).  The stabilizer of a record is  *)
(* the Pauli string with its label at each listed qubit and I elsewhere;   *)
(* qubit 0 is the leftmost factor, the most significant bit of a basis     *)
(* index.                                                                  *)
(***************************************************************************)
NumQubits(state) == Log2(Len(state))

LabelAt(stab, q) ==
    IF \E x \in 1..Len(stab.qubit_indices) : stab.qubit_indices[x] = q
    THEN PauliUpper(stab.paulis[IndexOf(stab.qubit_indices, q)])
    ELSE "I"

BitOf(b, n, q) == (b \div Pow2(n - 1 - q)) % 2

\* the string maps the basis state b of n qubits to PhaseOf times the basis
\* state FlipOf: the qubits q..n-1
RECURSIVE FlipOf(_, _, _, _)
FlipOf(stab, n, b, q) ==
    IF q = n THEN b
    ELSE LET rest == FlipOf(stab, n, b, q + 1)
         IN  IF LabelAt(stab, q) \in {"X", "Y"}
             THEN (IF BitOf(b, n, q) = 0 THEN rest + Pow2(n - 1 - q)
                                         ELSE rest - Pow2(n - 1 - q))
             ELSE rest

RECURSIVE PhaseOf(_, _, _, _)
PhaseOf(stab, n, b, q) ==
    IF q = n THEN COne
    ELSE LET rest == PhaseOf(stab, n, b, q + 1)
             bit == BitOf(b, n, q)
             f == CASE LabelAt(stab, q) = "Z" -> (IF bit = 0 THEN COne ELSE <<-1, 0>>)
                    [] LabelAt(stab, q) = "Y" -> (IF bit = 0 THEN CI ELSE <<0, -1>>)
                    [] OTHER -> COne
         IN  CMul(f, rest)

\* the string applied to the state of n qubits
Applied(stab, state) ==
    LET n == NumQubits(state)
    IN  [r \in 1..Len(state) |->
          LET b == CHOOSE x \in 0..(Len(state) - 1) : FlipOf(stab, n, x, 0) = r - 1
          IN  CMul(PhaseOf(stab, n, b, 0), state[b + 1])]

\* <state| S |state>
Expectation(stab, state) ==
    CSum([r \in 1..Len(state) |-> CMul(CConj(state[r]), Applied(stab, state)[r])])

IsPlusEigenstate(stab, state) ==
    /\ \E r \in 1..Len(state) : state[r] # CZero
    /\ Applied(stab, state) = state

ActsOn(stab, state) == SeqMax(stab.qubit_indices) + 1 = NumQubits(state)

\* C11: measure_syndrome, on a state of the register every stabilizer is
\* built for, returns one bit per declared stabilizer in declaration order:
\* 0 exactly when the real part of the stabilizer's expectation value is
\* > 0, else 1; a +1 eigenstate of every stabilizer gives only zeros.
C11_Syndrome ==
    (call.op = "measure_syndrome"
       /\ \A i \in 1..Len(code.stabilizers) : ActsOn(code.stabilizers[i], call.arg))
    => /\ call.status = "ok"
       /\ Len(call.ret) = Len(code.stabilizers)
       /\ \A i \in 1..Len(code.stabilizers) :
            call.ret[i] = 0 <=> Expectation(code.stabilizers[i], call.arg)[1] > 0
       /\ \A i \in 1..Len(code.stabilizers) : call.ret[i] \in {0, 1}
       /\ (\A i \in 1..Len(code.stabilizers) :
             IsPlusEigenstate(code.stabilizers[i], call.arg))
            => \A i \in 1..Len(code.stabilizers) : call.ret[i] = 0

\* the state |00> + |11> under the stabilizers ZZ and XX
C11_Witness ==
    /\ call.op = "measure_syndrome"
    /\ call.arg = <<<<1, 0>>, <<0, 0>>, <<0, 0>>, <<1, 0>>>>
    /\ code.stabilizers = <<Stabilizer(<<0, 1>>, <<"Z", "Z">>),
                            Stabilizer(<<0, 1>>, <<"X", "X">>)>>
    /\ call.ret = <<0, 0>>

\* C11 as stated: measure_syndrome returns one bit per declared stabilizer,
\* in declaration order, 0 exactly when the real part of the stabilizer's
\* expectation value on the state is > 0.
C11_AnyRegister ==
    call.op = "measure_syndrome"
    => /\ call.status = "ok"
       /\ Len(call.ret) = Len(code.stabilizers)
       /\ \A i \in 1..Len(code.stabilizers) :
            call.ret[i] = 0 <=> Expectation(code.stabilizers[i], call.arg)[1] > 0

(***************************************************************************)
(* SpecAssign: AssignmentError(p_a).apply(outcome) for every p_a in        *)
(* [0, 1] and every draw of np.random.rand() in [0, 1), both in units of   *)
(* 1 / AssignDen.                                                          *)
(***************************************************************************)
InitAssign ==
    /\ qubits = <<>>
    /\ operations = <<>>
    /\ call = NoCall
    /\ code = NoCode

assignment_apply ==
    /\ \E p_a \in 0..AssignDen, outcome \in {0, 1}, r \in 0..(AssignDen - 1) :
         call' = Call("AssignmentError.apply",
                      [p_a |-> p_a, outcome |-> outcome, r |-> r],
                      "ok", AssignmentApply(p_a, outcome, r))
    /\ UNCHANGED <<qubits, operations, code>>

NextAssign == assignment_apply

SpecAssign == InitAssign /\ [][NextAssign]_vars

\* C12: for every outcome o and every draw, AssignmentError(p_a = 0)
\* returns o and AssignmentError(p_a = 1) returns 1 - o.
C12_NeverOrAlwaysFlips ==
    call.op = "AssignmentError.apply" =>
      /\ call.arg.p_a = 0 => call.ret = call.arg.outcome
      /\ call.arg.p_a = AssignDen => call.ret = 1 - call.arg.outcome

\* p_a = 1 and the largest draw: the outcome 0 is flipped
C12_Witness ==
    /\ call.op = "AssignmentError.apply"
    /\ call.arg = [p_a |-> AssignDen, outcome |-> 0, r |-> AssignDen - 1]
    /\ call.ret = 1

(***************************************************************************)
(* transpiler.py.  The JSON text is modelled by the value json.loads       *)
(* gives back for it: a dict is a record, a list a tuple; json.dumps and   *)
(* json.loads return integers, floats and strings as they were.  The       *)
(* timestamps, which circuit_from_json does not read, are left out.        *)
(***************************************************************************)
\* TGate(); its matrix diag(1, e^(i pi/4)) is not representable and the
\* matrix field is not read
TGate ==
    [cls |-> "TGate", name |-> "", theta |-> 0, generator |-> "", matrix |-> Eye2]

\* str(gate).split("(")[0]
GateStrName(g) == g.cls

\* the dict circuit_to_json builds for one operation
OpToJson(op) ==
    CASE op.kind = "gate" ->
           IF op.gate.cls = "BraidingGate"
           THEN [type |-> "gate", qubit |-> op.q, name |-> GateStrName(op.gate),
                 theta |-> op.gate.theta, generator |-> op.gate.generator]
           ELSE [type |-> "gate", qubit |-> op.q, name |-> GateStrName(op.gate)]
      [] op.kind = "measure" ->
           [type |-> "measure", qubit |-> op.q, basis |-> op.basis]
      [] op.kind = "reset" -> [type |-> "reset", qubit |-> op.q]
      [] op.kind = "multi_gate" ->
           [type |-> "multi_gate", qubits |-> op.qs, name |-> GateStrName(op.gate)]

\* circuit_to_json
circuit_to_json(qs, ops) ==
    [num_qubits |-> Len(qs),
     operations |-> [i \in 1..Len(ops) |-> OpToJson(ops[i])]]

\* op.get(key, default)
DictGet(op, key, default) == IF key \in DOMAIN op THEN op[key] ELSE default

\* the gate circuit_from_json builds for the dict of a gate operation
GateFromJson(op) ==
    CASE op.name = "BraidingGate" ->
           BraidingGate(DictGet(op, "theta", 0), DictGet(op, "generator", "X"))
      [] op.name = "CliffordGate" -> CliffordGate("H")
      [] op.name = "TGate" -> TGate
      [] OTHER -> CliffordGate("H")

\* the loop of circuit_from_json over data["operations"]
RECURSIVE OpsFromJson(_, _, _)
OpsFromJson(jops, i, acc) ==
    IF i > Len(jops) THEN acc
    ELSE LET op == jops[i] IN
         CASE op.type = "gate" ->
                OpsFromJson(jops, i + 1, Append(acc, GateOp(op.qubit, GateFromJson(op))))
           [] op.type = "measure" ->
                OpsFromJson(jops, i + 1, Append(acc, MeasureOp(op.qubit, op.basis)))
           [] op.type = "reset" ->
                OpsFromJson(jops, i + 1, Append(acc, ResetOp(op.qubit)))
           [] OTHER -> OpsFromJson(jops, i + 1, acc)

\* circuit_from_json: the qubits and the operations of the new Circuit
circuit_from_json(data) ==
    [qubits |-> [i \in 1..data.num_qubits |-> Tetron(FALSE)],
     operations |-> OpsFromJson(data.operations, 1, <<>>)]

(***************************************************************************)
(* SpecJson: circuit_from_json(circuit_to_json(c)) for every circuit c of  *)
(* at most MaxJsonLen operations over JsonOps.                             *)
(***************************************************************************)
JsonOps ==
    {GateOp(0, BraidingGate(1, "X")), GateOp(1, BraidingGate(3, "z")),
     GateOp(0, CliffordGate("H")), GateOp(0, CliffordGate("S")),
     GateOp(1, TGate), MeasureOp(0, "X"), ResetOp(1),
     MultiGateOp(<<0, 1>>, CZGate)}

InitJson ==
    /\ \E n \in 0..MaxQubits, use_dm \in BOOLEAN :
         qubits = [i \in 1..n |-> Tetron(use_dm)]
    /\ operations \in UNION {[1..n -> JsonOps] : n \in 0..MaxJsonLen}
    /\ call = NoCall
    /\ code = NoCode

\* c = circuit_from_json(circuit_to_json(c))
json_round_trip ==
    LET c == circuit_from_json(circuit_to_json(qubits, operations)) IN
      /\ qubits' = c.qubits
      /\ operations' = c.operations
      /\ call' = Call("json_round_trip",
                      [num_qubits |-> Len(qubits), operations |-> operations],
                      "ok", <<>>)
      /\ UNCHANGED code

NextJson == json_round_trip

SpecJson == InitJson /\ [][NextJson]_vars

\* the gate h has the class of g and the parameters of an equivalent gate
EquivalentGate(g, h) ==
    /\ h.cls = g.cls
    /\ g.cls = "BraidingGate" => (h.theta = g.theta /\ h.generator = g.generator)
    /\ g.cls = "CliffordGate" => h.name = g.name

\* C13: the round trip through JSON preserves the qubit count, the number
\* and order of the operations, each operation's kind and target qubit(s),
\* and the parameters of its gate (angle and generator of a Braiding gate,
\* name of a Clifford gate).
C13_RoundTrip ==
    call.op = "json_round_trip" =>
      /\ Len(qubits) = call.arg.num_qubits
      /\ Len(operations) = Len(call.arg.operations)
      /\ \A p \in 1..Len(operations) :
           LET a == call.arg.operations[p]
               b == operations[p]
           IN  /\ b.kind = a.kind
               /\ b.q = a.q
               /\ b.qs = a.qs
               /\ a.kind = "gate" => EquivalentGate(a.gate, b.gate)

\* the operations of ops that are not multi_gate operations
NoMulti(ops) == SelectSeq(ops, LAMBDA op : op.kind # "multi_gate")

\* C14: executing a multi_gate operation in Circuit.run changes no qubit:
\* the run leaves every qubit's state, density matrix and history as the
\* run of the list without its multi_gate operations does, with the same
\* outcome and measurement results, and adds only the placeholder entries.
C14_MultiGateFrame ==
    [][IsRun(call') =>
         \E out \in CircuitRun(qubits, NoMulti(operations)) :
           /\ qubits' = out.qubits
           /\ call'.status = out.status
           /\ call'.status = "ok" =>
                /\ call'.ret.meas = out.results.meas
                /\ call'.ret.multi = MultiKeys(operations)]_vars

\* H on qubit 0, then CZ on qubits 0 and 1: one history entry in all
C14_Witness ==
    /\ IsRun(call) /\ call.status = "ok"
    /\ operations = <<GateOp(0, HGate), MultiGateOp(<<0, 1>>, CZGate)>>
    /\ Len(qubits) = 2
    /\ HistoryTotal(qubits) = 1
    /\ call.ret.multi = {<<0, 1>>}

IsMeasure(c) == c.op = "measure" /\ c.status = "ok"

\* the eigenvector of the basis for the outcome o
BasisVector(basis, o) ==
    CASE basis = "Z" /\ o = 0 -> Vec(COne, CZero, 0)
      [] basis = "Z" /\ o = 1 -> Vec(CZero, COne, 0)
      [] basis = "X" /\ o = 0 -> Vec(COne, COne, 1)
      [] basis = "X" /\ o = 1 -> Vec(COne, <<-1, 0>>, 1)

\* C15: after measure(basis) returns o the state is the eigenvector of the
\* basis for o, and a measure in the same basis issued next returns o.
C15_Collapse ==
    [][call'.op = "measure" =>
         /\ call'.status = "ok" =>
              qubits'[1].state = BasisVector(Upper(call'.arg.basis), call'.ret)
         /\ (IsMeasure(call) /\ Upper(call'.arg.basis) = Upper(call.arg.basis))
              => (call'.status = "ok" /\ call'.ret = call.ret)]_vars

\* H |0> measured in Z gives 1, and 1 again with the draw 0
C15_Witness ==
    /\ IsMeasure(call)
    /\ call.arg.u = 0
    /\ qubits[1].history = <<<<"gate", GateMatrix(HGate)>>,
                             <<"measure", "Z", 1>>, <<"measure", "Z", 1>>>>

\* the sum of the counts of the keys of a histogram
RECURSIVE SumCounts(_, _)
SumCounts(hist, keys) ==
    IF keys = {} THEN 0
    ELSE LET k == CHOOSE x \in keys : TRUE
         IN  hist[k] + SumCounts(hist, keys \ {k})

\* C16: for shots >= 0 the counts of the histogram Simulation.run returns
\* sum to shots, and every key is a tuple of one slot per declared qubit,
\* each slot 0, 1 or None.
C16_Histogram ==
    (IsSimRun(call) /\ call.arg.shots >= 0) =>
      /\ call.status = "ok"
      /\ SumCounts(call.ret, DOMAIN call.ret) = call.arg.shots
      /\ \A key \in DOMAIN call.ret :
           /\ DOMAIN key = 1..Len(qubits)
           /\ \A i \in DOMAIN key : key[i] \in {0, 1, None}

\* MaxShots shots of a circuit of two qubits
C16_Witness ==
    /\ IsSimRun(call)
    /\ call.arg.shots = MaxShots
    /\ Len(qubits) = 2
    /\ DOMAIN call.ret = {<<None, None>>}
    /\ call.ret[<<None, None>>] = MaxShots

(***************************************************************************)
(* Circuit.run with the draws of np.random given: the measure operations   *)
(* consume the sequence draws in order.  The outcomes are a set because of *)
(* the choice among eigenvectors in density-matrix mode.                   *)
(***************************************************************************)
RECURSIVE RunDraws(_, _, _, _, _)
RunDraws(qs, ops, i, results, draws) ==
    IF i > Len(ops) THEN {RunOut(qs, "ok", results)}
    ELSE LET op == ops[i]
             idx == PyIndex(Len(qs), op.q)
         IN  CASE op.kind = "gate" ->
                    IF idx = 0 THEN {RunOut(qs, "IndexError", results)}
                    ELSE UNION {RunDraws([qs EXCEPT ![idx] = t], ops, i + 1, results, draws)
                                : t \in apply_single_qubit_gate(qs[idx], GateMatrix(op.gate))}
               [] op.kind = "multi_gate" ->
                    RunDraws(qs, ops, i + 1,
                             [results EXCEPT !.multi = @ \cup {op.qs}], draws)
               [] op.kind = "measure" ->
                    IF idx = 0 THEN {RunOut(qs, "IndexError", results)}
                    ELSE LET r == measure(qs[idx], op.basis, Head(draws)) IN
                           IF r.err # "" THEN {RunOut(qs, r.err, results)}
                           ELSE RunDraws([qs EXCEPT ![idx] = r.t], ops, i + 1,
                                         [results EXCEPT
                                            !.meas = SetKey(@, op.q, r.outcome)],
                                         Tail(draws))
               [] op.kind = "reset" ->
                    IF idx = 0 THEN {RunOut(qs, "IndexError", results)}
                    ELSE RunDraws([qs EXCEPT ![idx] = reset(qs[idx])], ops, i + 1,
                                  results, draws)
               [] OTHER -> RunDraws(qs, ops, i + 1, results, draws)

\* what a caller sees of the outcomes of a run: every qubit's state, the
\* exception if any and the returned results
Observed(outs) ==
    {[states |-> [x \in 1..Len(o.qubits) |-> o.qubits[x].state],
      status |-> o.status,
      results |-> IF o.status = "ok" THEN o.results ELSE NoResults] : o \in outs}

(***************************************************************************)
(* SpecEquiv: a circuit of two qubits, the first in a state that calls of  *)
(* its methods reach, holds a list of at most MaxEquivLen operations over  *)
(* unitary gates, measure and reset; it is run as it is and, from the same *)
(* qubit states and with the same draws, after optimize_circuit.           *)
(***************************************************************************)
EquivOps ==
    {GateOp(0, HGate), GateOp(0, SGate), GateOp(0, BraidingGate(1, "X")),
     GateOp(1, HGate), MeasureOp(0, "X"), ResetOp(0)}

\* the Tetron after no call, after H and S, and after H, S and a
\* measurement in X
EquivStarts(use_dm) ==
    LET t0 == Tetron(use_dm)
        t1 == apply_single_qubit_gate(t0, GateMatrix(HGate))
        t2 == UNION {apply_single_qubit_gate(t, GateMatrix(SGate)) : t \in t1}
        t3 == {measure(t, "X", u).t : t \in t2, u \in Draws}
    IN  {t0} \cup t2 \cup t3

NumMeasures(ops) == Len(SelectSeq(ops, LAMBDA op : op.kind = "measure"))

InitEquiv ==
    /\ \E use_dm \in BOOLEAN : \E t \in EquivStarts(use_dm) :
         qubits = <<t, Tetron(use_dm)>>
    /\ operations \in UNION {[1..n -> EquivOps] : n \in 0..MaxEquivLen}
    /\ call = NoCall
    /\ code = NoCode

\* circuit.run() with the draws draws; ret holds what is observed of it and
\* of the run of optimize_circuit's list from the same qubits and draws
run_both ==
    /\ call = NoCall
    /\ \E draws \in [1..NumMeasures(operations) -> Draws] :
         \E out \in RunDraws(qubits, operations, 1, NoResults, draws) :
           /\ qubits' = out.qubits
           /\ call' = Call("run_both", draws, out.status,
                           [original |->
                              Observed(RunDraws(qubits, operations, 1, NoResults, draws)),
                            optimized |->
                              Observed(RunDraws(qubits, optimize_circuit(operations),
                                                1, NoResults, draws))])
    /\ UNCHANGED <<operations, code>>

NextEquiv == run_both

SpecEquiv == InitEquiv /\ [][NextEquiv]_vars

UpToPhase(obs) ==
    {[o EXCEPT !.states = [x \in DOMAIN o.states |-> Outer(o.states[x])]] : o \in obs}

SameOps(a, b) ==
    /\ Len(a) = Len(b)
    /\ \A p \in 1..Len(a) :
         /\ a[p].kind = b[p].kind
         /\ a[p].q = b[p].q
         /\ a[p].kind = "gate" => GateMatrix(a[p].gate) = GateMatrix(b[p].gate)

\* no two adjacent gate operations on one qubit index
NoAdjacent(ops) == \A p \in 1..Len(ops) : ~ContinuesRun(ops, p)

\* two runs on one qubit index that are kept and have only dropped runs
\* between them
Rejoins(in) ==
    \E s, t \in 1..Len(in) :
      /\ s < t
      /\ RunStart(in, s) /\ RunStart(in, t)
      /\ in[s].q = in[t].q
      /\ ~Dropped(in, s, "allclose") /\ ~Dropped(in, t, "allclose")
      /\ \A x \in (s + 1)..(t - 1) :
           UnitStart(in, x) => Dropped(in, x, "allclose")

\* C18 (as amended): the output of optimize_circuit holds two adjacent
\* gate operations on one qubit index exactly when the input holds two
\* kept runs on one qubit index with only dropped runs between them;
\* otherwise optimize_circuit applied to its own output yields a list of
\* the same length with the same kind, qubit index and gate matrix at each
\* position.
C18_FixedPointUnlessRejoined ==
    [][(IsOptimize(call) /\ IsOptimize(call')) =>
         /\ NoAdjacent(operations) <=> ~Rejoins(call.arg)
         /\ ~Rejoins(call.arg) => SameOps(operations', operations)]_vars

\* optimize_circuit applied to its own output, the one gate S * H
C18_Witness ==
    /\ IsOptimize(call)
    /\ call.arg = operations
    /\ operations =
         <<GateOp(0, GenericGate(MatMul(GateMatrix(SGate), GateMatrix(HGate))))>>

\* C18 as stated: optimize_circuit applied to its own output yields the
\* same list, and its output never holds two adjacent gate operations on
\* one qubit index.
C18_Idempotent ==
    [][(IsOptimize(call) /\ IsOptimize(call')) =>
         /\ NoAdjacent(operations)
         /\ SameOps(operations', operations)]_vars

====
